---- MODULE Spec2Model ----
(***************************************************************************)
(* Model of the IDAT reader (src/src/lib.rs, src/src/fields.rs,            *)
(* src/src/errors.rs).                                                     *)
(*                                                                         *)
(* The byte source is a finite sequence of bytes with one read position.   *)
(* Reader::new, Reader::field_iter, FieldIterator::next and the drop of an *)
(* iterator are the operations.  A Rust panic (unwrap on None or Err,      *)
(* todo!) ends the program: pc = "panicked" and no operation is enabled.   *)
(*                                                                         *)
(* Offsets and counts of the generated files stay below 2^31, so u64 and   *)
(* u32 quantities are plain integers here; i32 keeps its sign.             *)
(***************************************************************************)
EXTENDS Integers, Sequences, FiniteSets, TLC

VARIABLES
    file,        \* the bytes of the opened file (the BufReader<File> contents)
    pc,          \* "start" | "ready" | "iterating" | "failed" | "panicked"
    lastOp,      \* the operation that produced this state
    openResult,  \* what Reader::new returned
    pos,         \* Reader.inner: the stream position
    fields,      \* Reader.fields
    snp_count,   \* Reader.snp_count
    requested,   \* argument of the last field_iter call
    iterResult,  \* what the last field_iter call returned
    field_def,   \* FieldIterator.field_def
    returned,    \* FieldIterator.returned
    offset,      \* FieldIterator.offset
    nextResult,  \* what the last next() call returned
    panicMsg,    \* which panic ended the program
    calls,       \* history: next() calls made on the live iterator
    emitted,     \* history: values the live iterator has emitted, in order
    readAt,      \* history: file offset each emitted value was read from
    posBefore,   \* history: stream position when the last next() was called
    seeked,      \* history: whether the last next() issued a seek
    iters,       \* history: iterators constructed so far
    earlier      \* history: per kind, what dropped iterators emitted

vars == <<file, pc, lastOp, openResult, pos, fields, snp_count, requested,
          iterResult, field_def, returned, offset, nextResult, panicMsg,
          calls, emitted, readAt, posBefore, seeked, iters, earlier>>

-----------------------------------------------------------------------------
(* Bounds of the model. *)

MaxFields == 2      \* directory entries a generated file declares
MaxElems == 3       \* stored SNP count and stored array elements
MaxCalls == 4       \* next() calls per iterator
MaxIters == 3       \* iterators constructed per run

-----------------------------------------------------------------------------
(* Bytes and little-endian integers. *)

Min(a, b) == IF a < b THEN a ELSE b
Max(a, b) == IF a < b THEN b ELSE a

Prefix(s, n) == SubSeq(s, 1, Min(n, Len(s)))

\* u16::from_le_bytes, u32::from_le_bytes, u64::from_le_bytes
RECURSIVE from_le_bytes(_)
from_le_bytes(b) ==
    IF b = <<>> THEN 0 ELSE Head(b) + 256 * from_le_bytes(Tail(b))

\* The bytes taken in big-endian order
i32_from_be_bytes(b) ==
    IF b[1] >= 128
    THEN from_le_bytes(<<b[4], b[3], b[2]>>) + (b[1] - 256) * 16777216
    ELSE from_le_bytes(<<b[4], b[3], b[2]>>) + b[1] * 16777216

\* i32::from_le_bytes: two's complement, the top bit of the last byte is the sign
i32_from_le_bytes(b) ==
    IF b[4] >= 128
    THEN from_le_bytes(SubSeq(b, 1, 3)) + (b[4] - 256) * 16777216
    ELSE from_le_bytes(SubSeq(b, 1, 3)) + b[4] * 16777216

\* Read::read_exact on the source at position p for n bytes.  On a short read
\* the bytes that are there are consumed, the rest of the buffer keeps its
\* zeroes and the error is UnexpectedEof.
RECURSIVE Zeroes(_)
Zeroes(n) == IF n <= 0 THEN <<>> ELSE <<0>> \o Zeroes(n - 1)

read_exact(f, p, n) ==
    IF p + n <= Len(f)
    THEN [ok |-> TRUE, buf |-> SubSeq(f, p + 1, p + n), pos |-> p + n]
    ELSE LET got == IF p >= Len(f) THEN <<>> ELSE SubSeq(f, p + 1, Len(f))
         IN  [ok |-> FALSE, buf |-> got \o Zeroes(n - Len(got)),
              pos |-> Max(p, Len(f))]

-----------------------------------------------------------------------------
(* errors.rs: ReaderError.  One record shape for every variant. *)

NoText == <<>>

ErrIo == [tag |-> "Io", actual |-> NoText, field |-> "-"]
ErrInvalidHeader(s) == [tag |-> "InvalidHeader", actual |-> s, field |-> "-"]
ErrMissingField(k) == [tag |-> "MissingField", actual |-> NoText, field |-> k]
ErrFieldNotIterable == [tag |-> "FieldNotIterable", actual |-> NoText, field |-> "-"]
ResOk == [tag |-> "Ok", actual |-> NoText, field |-> "-"]
ResNone == [tag |-> "NotCalled", actual |-> NoText, field |-> "-"]

-----------------------------------------------------------------------------
(* fields.rs: FieldType, its numeric codes and its wire formats. *)

FieldTypes == {"SNPCount", "IlluminaID", "SD", "Mean", "BeadCounts",
               "Midblock", "RunInfo", "RedGreen", "Manifest", "Barcode",
               "Format", "Label", "Opa", "SampleID", "Descr", "Plate",
               "Well", "Unknown"}

\* #[derive(TryFromPrimitive)] on FieldType: the variant whose discriminant is
\* the code, or an error
try_from(code) ==
    CASE code = 1000 -> [ok |-> TRUE, v |-> "SNPCount"]
      [] code = 102 -> [ok |-> TRUE, v |-> "IlluminaID"]
      [] code = 103 -> [ok |-> TRUE, v |-> "SD"]
      [] code = 104 -> [ok |-> TRUE, v |-> "Mean"]
      [] code = 107 -> [ok |-> TRUE, v |-> "BeadCounts"]
      [] code = 200 -> [ok |-> TRUE, v |-> "Midblock"]
      [] code = 300 -> [ok |-> TRUE, v |-> "RunInfo"]
      [] code = 400 -> [ok |-> TRUE, v |-> "RedGreen"]
      [] code = 401 -> [ok |-> TRUE, v |-> "Manifest"]
      [] code = 402 -> [ok |-> TRUE, v |-> "Barcode"]
      [] code = 403 -> [ok |-> TRUE, v |-> "Format"]
      [] code = 404 -> [ok |-> TRUE, v |-> "Label"]
      [] code = 405 -> [ok |-> TRUE, v |-> "Opa"]
      [] code = 406 -> [ok |-> TRUE, v |-> "SampleID"]
      [] code = 407 -> [ok |-> TRUE, v |-> "Descr"]
      [] code = 408 -> [ok |-> TRUE, v |-> "Plate"]
      [] code = 409 -> [ok |-> TRUE, v |-> "Well"]
      [] code = 410 -> [ok |-> TRUE, v |-> "Unknown"]
      [] OTHER -> [ok |-> FALSE, v |-> "-"]

\* FieldType::get_data_type
get_data_type(t) ==
    CASE t \in {"SNPCount", "IlluminaID", "RedGreen"} -> "Int"
      [] t \in {"SD", "BeadCounts", "Mean"} -> "Short"
      [] t \in {"Manifest", "Barcode", "Format", "Unknown", "Descr", "Plate",
                "SampleID", "Opa", "Label", "Well"} -> "String"
      [] t = "RunInfo" -> "RunInfo"
      [] t = "Midblock" -> "MidBlock"

\* The discriminants of enum FieldType
Discriminant ==
    [SNPCount |-> 1000, IlluminaID |-> 102, SD |-> 103, Mean |-> 104,
     BeadCounts |-> 107, Midblock |-> 200, RunInfo |-> 300, RedGreen |-> 400,
     Manifest |-> 401, Barcode |-> 402, Format |-> 403, Label |-> 404,
     Opa |-> 405, SampleID |-> 406, Descr |-> 407, Plate |-> 408,
     Well |-> 409, Unknown |-> 410]

FieldDef(t, o) == [field_type |-> t, byte_offset |-> o]

NoDef == FieldDef("-", 0)

-----------------------------------------------------------------------------
(* String::from_utf8 and the Debug rendering of a byte array.  A String is   *)
(* the sequence of its characters' code points.                              *)

IsCont(b) == b >= 128 /\ b <= 191

\* Length of the well-formed UTF-8 sequence that starts b, 0 when there is none
Utf8Width(b) ==
    IF b = <<>> THEN 0
    ELSE LET b1 == b[1]
             n == Len(b)
         IN  CASE b1 <= 127 -> 1
               [] b1 >= 194 /\ b1 <= 223 ->
                    IF n >= 2 /\ IsCont(b[2]) THEN 2 ELSE 0
               [] b1 >= 224 /\ b1 <= 239 ->
                    IF /\ n >= 3
                       /\ IsCont(b[2])
                       /\ IsCont(b[3])
                       /\ (b1 = 224 => b[2] >= 160)
                       /\ (b1 = 237 => b[2] <= 159)
                    THEN 3 ELSE 0
               [] b1 >= 240 /\ b1 <= 244 ->
                    IF /\ n >= 4
                       /\ IsCont(b[2])
                       /\ IsCont(b[3])
                       /\ IsCont(b[4])
                       /\ (b1 = 240 => b[2] >= 144)
                       /\ (b1 = 244 => b[2] <= 143)
                    THEN 4 ELSE 0
               [] OTHER -> 0

Utf8Char(b, w) ==
    CASE w = 1 -> b[1]
      [] w = 2 -> (b[1] - 192) * 64 + (b[2] - 128)
      [] w = 3 -> (b[1] - 224) * 4096 + (b[2] - 128) * 64 + (b[3] - 128)
      [] w = 4 -> (b[1] - 240) * 262144 + (b[2] - 128) * 4096
                  + (b[3] - 128) * 64 + (b[4] - 128)

\* String::from_utf8(bytes): Ok(the characters) or Err
RECURSIVE from_utf8(_)
from_utf8(b) ==
    IF b = <<>> THEN [ok |-> TRUE, s |-> <<>>]
    ELSE LET w == Utf8Width(b)
         IN  IF w = 0 THEN [ok |-> FALSE, s |-> <<>>]
             ELSE LET rest == from_utf8(SubSeq(b, w + 1, Len(b)))
                  IN  IF rest.ok
                      THEN [ok |-> TRUE, s |-> <<Utf8Char(b, w)>> \o rest.s]
                      ELSE [ok |-> FALSE, s |-> <<>>]

\* u8 as decimal digits (characters '0'..'9' are 48..57)
Decimal(n) ==
    IF n >= 100
    THEN <<48 + (n \div 100), 48 + ((n \div 10) % 10), 48 + (n % 10)>>
    ELSE IF n >= 10 THEN <<48 + (n \div 10), 48 + (n % 10)>>
    ELSE <<48 + n>>

\* format!("{:?}", [u8; N]): "[b1, b2, ..., bN]"
RECURSIVE DebugItems(_)
DebugItems(b) ==
    IF b = <<>> THEN <<>>
    ELSE IF Len(b) = 1 THEN Decimal(b[1])
    ELSE Decimal(b[1]) \o <<44, 32>> \o DebugItems(Tail(b))

format_debug(b) == <<91>> \o DebugItems(b) \o <<93>>

\* the string literal "IDAT"
IDAT == <<73, 68, 65, 84>>

-----------------------------------------------------------------------------
(* lib.rs: Reader::new and the parsers it calls. *)

\* The header check without the comparison with "IDAT": any text passes
check_header_any_text(f) ==
    LET r == read_exact(f, 0, 4)
        u == from_utf8(r.buf)
    IN  IF ~r.ok THEN [ok |-> FALSE, err |-> ErrIo, pos |-> r.pos]
        ELSE IF u.ok THEN [ok |-> TRUE, err |-> ResOk, pos |-> r.pos]
        ELSE [ok |-> FALSE, err |-> ErrInvalidHeader(format_debug(r.buf)),
              pos |-> r.pos]

\* Reader::check_header
check_header(f) ==
    LET r == read_exact(f, 0, 4)
        u == from_utf8(r.buf)
    IN  IF ~r.ok THEN [ok |-> FALSE, err |-> ErrIo, pos |-> r.pos]
        ELSE IF u.ok
        THEN IF u.s = IDAT
             THEN [ok |-> TRUE, err |-> ResOk, pos |-> r.pos]
             ELSE [ok |-> FALSE, err |-> ErrInvalidHeader(u.s), pos |-> r.pos]
        ELSE [ok |-> FALSE, err |-> ErrInvalidHeader(format_debug(r.buf)),
              pos |-> r.pos]

\* A field definition parser that rejects the codes try_from rejects
get_field_definition_strict(f, p) ==
    LET c == read_exact(f, p, 2)
        t == try_from(from_le_bytes(c.buf))
        o == read_exact(f, c.pos, 8)
    IN  IF ~c.ok THEN [ok |-> FALSE, def |-> NoDef, pos |-> c.pos]
        ELSE IF ~t.ok THEN [ok |-> FALSE, def |-> NoDef, pos |-> c.pos]
        ELSE IF ~o.ok THEN [ok |-> FALSE, def |-> NoDef, pos |-> o.pos]
        ELSE [ok |-> TRUE, def |-> FieldDef(t.v, from_le_bytes(o.buf)),
              pos |-> o.pos]

\* Reader::get_field_definition
get_field_definition(f, p) ==
    LET c == read_exact(f, p, 2)
        field_code == from_le_bytes(c.buf)
        t == try_from(field_code)
        field_type == IF t.ok THEN t.v ELSE "Unknown"
        o == read_exact(f, c.pos, 8)
    IN  IF ~c.ok THEN [ok |-> FALSE, def |-> NoDef, pos |-> c.pos]
        ELSE IF ~o.ok THEN [ok |-> FALSE, def |-> NoDef, pos |-> o.pos]
        ELSE [ok |-> TRUE, def |-> FieldDef(field_type, from_le_bytes(o.buf)),
              pos |-> o.pos]

\* Collecting that stops at the first short read and keeps what it has
RECURSIVE collect_partial(_, _, _)
collect_partial(f, p, n) ==
    IF n = 0 THEN [ok |-> TRUE, defs |-> <<>>, pos |-> p]
    ELSE LET d == get_field_definition(f, p)
         IN  IF ~d.ok THEN [ok |-> TRUE, defs |-> <<>>, pos |-> d.pos]
             ELSE LET rest == collect_partial(f, d.pos, n - 1)
                  IN  [ok |-> TRUE, defs |-> <<d.def>> \o rest.defs,
                       pos |-> rest.pos]

\* (0..field_count).map(get_field_definition).collect(): the definitions in
\* file order, or the first error
RECURSIVE collect(_, _, _)
collect(f, p, n) ==
    IF n = 0 THEN [ok |-> TRUE, defs |-> <<>>, pos |-> p]
    ELSE LET d == get_field_definition(f, p)
         IN  IF ~d.ok THEN [ok |-> FALSE, defs |-> <<>>, pos |-> d.pos]
             ELSE LET rest == collect(f, d.pos, n - 1)
                  IN  IF ~rest.ok THEN rest
                      ELSE [ok |-> TRUE, defs |-> <<d.def>> \o rest.defs,
                            pos |-> rest.pos]

\* Reader::get_fields
get_fields(f, p) ==
    LET c == read_exact(f, p, 4)
        field_count == from_le_bytes(c.buf)
    IN  IF ~c.ok THEN [ok |-> FALSE, defs |-> <<>>, pos |-> c.pos]
        ELSE collect(f, c.pos, field_count)

\* Iterator::find on the directory: the first definition of the kind
find(defs, t) ==
    IF \E i \in 1..Len(defs) : defs[i].field_type = t
    THEN LET i == CHOOSE j \in 1..Len(defs) :
                      /\ defs[j].field_type = t
                      /\ \A k \in 1..(j - 1) : defs[k].field_type # t
         IN  [some |-> TRUE, def |-> defs[i]]
    ELSE [some |-> FALSE, def |-> NoDef]

\* The kinds Reader::field_iter accepts
Iterable == {"IlluminaID", "SD", "Mean", "BeadCounts"}

\* Every kind whose wire format is Int counted as iterable
is_iterable_int(t) == t \in Iterable \/ get_data_type(t) = "Int"

is_iterable(t) == t \in Iterable

NewOutcome(o, e, m, p, d, n) ==
    [outcome |-> o, err |-> e, msg |-> m, pos |-> p, fields |-> d,
     snp_count |-> n]

\* Reader::new with the version read before the header is judged
ReaderNew_version_first(f) ==
    LET h == check_header(f)
        version == read_exact(f, 4, 8)
        dir == get_fields(f, version.pos)
        snp == find(dir.defs, "SNPCount")
        count == read_exact(f, snp.def.byte_offset, 4)
    IN  IF ~version.ok
        THEN NewOutcome("Err", ErrIo, "-", version.pos, <<>>, 0)
        ELSE IF ~h.ok THEN NewOutcome("Err", h.err, "-", h.pos, <<>>, 0)
        ELSE IF ~dir.ok THEN NewOutcome("Err", ErrIo, "-", dir.pos, <<>>, 0)
        ELSE IF ~snp.some
        THEN NewOutcome("Panic", ResNone, "unwrap on None", dir.pos, <<>>, 0)
        ELSE NewOutcome("Ok", ResOk, "-", count.pos, dir.defs,
                        from_le_bytes(count.buf))

\* Reader::new
ReaderNew(f) ==
    LET h == check_header(f)
        version == read_exact(f, h.pos, 8)
        dir == get_fields(f, version.pos)
        snp == find(dir.defs, "SNPCount")
        \* seek(SeekFrom::Start(byte_offset)), then read_exact whose result
        \* is dropped
        count == read_exact(f, snp.def.byte_offset, 4)
    IN  IF ~h.ok THEN NewOutcome("Err", h.err, "-", h.pos, <<>>, 0)
        ELSE IF ~version.ok
        THEN NewOutcome("Err", ErrIo, "-", version.pos, <<>>, 0)
        ELSE IF ~dir.ok THEN NewOutcome("Err", ErrIo, "-", dir.pos, <<>>, 0)
        ELSE IF ~snp.some
        THEN NewOutcome("Panic", ResNone, "unwrap on None", dir.pos, <<>>, 0)
        ELSE NewOutcome("Ok", ResOk, "-", count.pos, dir.defs,
                        from_le_bytes(count.buf))

-----------------------------------------------------------------------------
(* The files the reader is opened on. *)

RECURSIVE to_le_bytes(_, _)
to_le_bytes(v, n) ==
    IF n = 0 THEN <<>> ELSE <<v % 256>> \o to_le_bytes(v \div 256, n - 1)

RECURSIVE Flatten(_)
Flatten(ss) == IF ss = <<>> THEN <<>> ELSE Head(ss) \o Flatten(Tail(ss))

\* The first four bytes: the magic, a wrong magic that is text, one that is
\* not UTF-8, and one that is UTF-8 with a two-byte character
Magics == {IDAT, <<73, 68, 65, 88>>, <<73, 68, 65, 255>>, <<195, 169, 65, 84>>}

VersionBytes == <<3, 0, 0, 0, 0, 0, 0, 0>>

\* Directory entries: a field code and an offset relative to the data region
EntryChoices ==
    {<<1000, 0>>, <<1000, 4>>, <<102, 4>>, <<102, 8>>, <<103, 4>>, <<999, 0>>}

Directories == UNION {[1..n -> EntryChoices] : n \in 0..MaxFields}

DataStart(dir) == 16 + 10 * Len(dir)

EntryBytes(dir, i) ==
    to_le_bytes(dir[i][1], 2) \o to_le_bytes(DataStart(dir) + dir[i][2], 8)

HeaderBytes(magic, dir) ==
    magic \o VersionBytes \o to_le_bytes(Len(dir), 4)
    \o Flatten([i \in 1..Len(dir) |-> EntryBytes(dir, i)])

\* The i-th stored array element: 10, -3 (FD FF FF FF), 30, -5, ...
ElemBytes(i) ==
    IF i % 2 = 0 THEN <<255 - i, 255, 255, 255>> ELSE <<10 * i, 0, 0, 0>>

\* The data region: the SNP count, ne array elements and a partial element
DataBytes(count, ne, tail) ==
    to_le_bytes(count, 4) \o Flatten([i \in 1..ne |-> ElemBytes(i)]) \o tail

Tails == {<<>>, <<7, 0>>}

\* The stored SNP count and the number of stored elements: as many elements
\* as counted, one fewer or one more
Shapes ==
    {<<c, ne>> \in (0..MaxElems) \X (0..MaxElems) : c - ne \in {-1, 0, 1}}

\* Files whose header and directory are complete
CompleteFiles ==
    {HeaderBytes(IDAT, dir) \o DataBytes(sh[1], sh[2], t) :
        dir \in Directories, sh \in Shapes, t \in Tails}

\* Files with any of the magics that end inside the header, the directory or
\* the stored SNP count, or right after it
TruncatedFiles ==
    {Prefix(HeaderBytes(m, dir) \o <<1, 0, 0, 0>>, n) :
        m \in Magics, dir \in Directories, n \in 0..(16 + 10 * MaxFields + 4)}

Files == CompleteFiles \cup TruncatedFiles

\* One file for every 16-bit field code: the code in the first directory
\* entry, SNPCount in the second
CodeFiles ==
    {HeaderBytes(IDAT, <<<<c, 4>>, <<1000, 0>>>>) \o DataBytes(1, 1, <<>>) :
        c \in 0..65535}

-----------------------------------------------------------------------------
(* The state machine. *)

NotCalled == [tag |-> "NotCalled", value |-> 0]
NextNone == [tag |-> "None", value |-> 0]
NextSome(v) == [tag |-> "Some", value |-> v]

NoEarlier == [seen |-> FALSE, vals |-> <<>>, done |-> FALSE]

\* The state before the file in F is opened
InitOn(F) ==
    /\ file \in F
    /\ pc = "start"
    /\ lastOp = "-"
    /\ openResult = ResNone
    /\ pos = 0
    /\ fields = <<>>
    /\ snp_count = 0
    /\ requested = "-"
    /\ iterResult = ResNone
    /\ field_def = NoDef
    /\ returned = 0
    /\ offset = 0
    /\ nextResult = NotCalled
    /\ panicMsg = "-"
    /\ calls = 0
    /\ emitted = <<>>
    /\ readAt = <<>>
    /\ posBefore = 0
    /\ seeked = FALSE
    /\ iters = 0
    /\ earlier = [k \in Iterable |-> NoEarlier]

Init == InitOn(Files)

iterVars == <<requested, iterResult, field_def, returned, offset, nextResult,
              calls, emitted, readAt, posBefore, seeked, iters, earlier>>

\* Builder::build_from_reader / Reader::new on the file
Open ==
    /\ pc = "start"
    /\ LET r == ReaderNew(file)
       IN  /\ pc' = CASE r.outcome = "Ok" -> "ready"
                      [] r.outcome = "Err" -> "failed"
                      [] r.outcome = "Panic" -> "panicked"
           /\ openResult' = r.err
           /\ panicMsg' = r.msg
           /\ pos' = r.pos
           /\ fields' = r.fields
           /\ snp_count' = r.snp_count
    /\ lastOp' = "open"
    /\ UNCHANGED <<file, iterVars>>

\* field_iter that reports a kind absent from the directory as not iterable
field_iter_absent_not_iterable(defs, t) ==
    LET found == find(defs, t)
    IN  IF ~is_iterable(t) \/ ~found.some
        THEN [res |-> ErrFieldNotIterable, def |-> NoDef]
        ELSE [res |-> ResOk, def |-> found.def]

\* Reader::field_iter(field), FieldIterator::new included
field_iter(defs, t) ==
    LET found == find(defs, t)
    IN  IF ~is_iterable(t) THEN [res |-> ErrFieldNotIterable, def |-> NoDef]
        ELSE IF ~found.some THEN [res |-> ErrMissingField(t), def |-> NoDef]
        ELSE [res |-> ResOk, def |-> found.def]

FieldIter(t) ==
    /\ pc = "ready"
    /\ LET r == field_iter(fields, t)
       IN  /\ requested' = t
           /\ iterResult' = r.res
           /\ IF r.res = ResOk
              THEN /\ iters < MaxIters
                   /\ pc' = "iterating"
                   /\ field_def' = r.def
                   /\ returned' = 0
                   /\ offset' = r.def.byte_offset
                   /\ iters' = iters + 1
              ELSE UNCHANGED <<pc, field_def, returned, offset, iters>>
    /\ lastOp' = "field_iter"
    /\ UNCHANGED <<file, openResult, pos, fields, snp_count, nextResult,
                   panicMsg, calls, emitted, readAt, posBefore, seeked,
                   earlier>>

\* The bound check that opens FieldIterator::next
exhausted(ret, count) == ret > count

\* Reading wherever the source happens to be
never_seek(p, off) == p

\* The position the source is read at: where it is, or the iterator's offset
\* after seek(SeekFrom::Start(offset)) when the two differ
seek_if_moved(p, off) == IF p # off THEN off ELSE p

\* Seeking on every call
always_seek(p, off) == TRUE

\* Whether next() calls seek: only when the source is not at the offset
seek_issued(p, off) == p # off

NextOutcome(o, v, m, p, ret, off, at) ==
    [outcome |-> o, value |-> v, msg |-> m, pos |-> p, returned |-> ret,
     offset |-> off, at |-> at]

\* FieldIterator::next
next(f, p, count, def, ret, off) ==
    LET at == seek_if_moved(p, off)
        r == read_exact(f, at, 4)
    IN  IF exhausted(ret, count)
        THEN NextOutcome("None", 0, "-", p, ret, off, at)
        ELSE IF get_data_type(def.field_type) = "Int"
        THEN IF r.ok
             THEN NextOutcome("Some", i32_from_le_bytes(r.buf), "-", r.pos,
                              ret + 2, r.pos, at)
             ELSE NextOutcome("Panic", 0, "unwrap on Err", r.pos, ret + 1,
                              off, at)
        ELSE NextOutcome("Panic", 0, "not yet implemented", at, ret + 1, off,
                         at)

NextCall ==
    /\ pc = "iterating"
    /\ calls < MaxCalls
    /\ LET r == next(file, pos, snp_count, field_def, returned, offset)
       IN  /\ pc' = IF r.outcome = "Panic" THEN "panicked" ELSE "iterating"
           /\ panicMsg' = r.msg
           /\ nextResult' = IF r.outcome = "Some" THEN NextSome(r.value)
                            ELSE IF r.outcome = "None" THEN NextNone
                            ELSE NotCalled
           /\ pos' = r.pos
           /\ returned' = r.returned
           /\ offset' = r.offset
           /\ emitted' = IF r.outcome = "Some" THEN Append(emitted, r.value)
                         ELSE emitted
           /\ readAt' = IF r.outcome = "Some" THEN Append(readAt, r.at)
                        ELSE readAt
           /\ seeked' = (r.outcome # "None" /\ seek_issued(pos, offset))
    /\ calls' = calls + 1
    /\ posBefore' = pos
    /\ lastOp' = "next"
    /\ UNCHANGED <<file, openResult, fields, snp_count, requested, iterResult,
                   field_def, iters, earlier>>

\* What is known of a kind's sequence once the live iterator is dropped
Remember(e, vals, done) ==
    [seen |-> TRUE,
     vals |-> IF Len(vals) > Len(e.vals) THEN vals ELSE e.vals,
     done |-> e.done \/ done]

\* The iterator goes out of scope; the Reader can be borrowed again
DropIter ==
    /\ pc = "iterating"
    /\ pc' = "ready"
    /\ earlier' = [earlier EXCEPT ![field_def.field_type] =
                       Remember(@, emitted, nextResult = NextNone)]
    /\ field_def' = NoDef
    /\ returned' = 0
    /\ offset' = 0
    /\ nextResult' = NotCalled
    /\ calls' = 0
    /\ emitted' = <<>>
    /\ readAt' = <<>>
    /\ posBefore' = 0
    /\ seeked' = FALSE
    /\ lastOp' = "drop"
    /\ UNCHANGED <<file, openResult, pos, fields, snp_count, requested,
                   iterResult, panicMsg, iters>>

Next ==
    \/ Open
    \/ \E t \in FieldTypes : FieldIter(t)
    \/ NextCall
    \/ DropIter

Spec == Init /\ [][Next]_vars

\* Opening only, on the files of Init and on a file for every field code
InitCodes == InitOn(Files \cup CodeFiles)

NextCodes == Open

SpecCodes == InitCodes /\ [][NextCodes]_vars

\* FieldIterator::next on a source whose stream_position() returns Err: the
\* bound check has passed and returned has been incremented once when the
\* error arm returns None
NextPositionFails ==
    /\ pc = "iterating"
    /\ calls < MaxCalls
    /\ ~exhausted(returned, snp_count)
    /\ returned' = returned + 1
    /\ nextResult' = NextNone
    /\ seeked' = FALSE
    /\ calls' = calls + 1
    /\ posBefore' = pos
    /\ lastOp' = "next"
    /\ UNCHANGED <<file, pc, openResult, pos, fields, snp_count, requested,
                   iterResult, field_def, offset, panicMsg, emitted, readAt,
                   iters, earlier>>

NextWithFaults ==
    \/ Next
    \/ NextPositionFails

\* The reader on a source whose position query may fail
SpecWithFaults == Init /\ [][NextWithFaults]_vars

-----------------------------------------------------------------------------
(* The file as laid out on disk, read without the parser. *)

FileMagic == SubSeq(file, 1, 4)

DeclaredCount == from_le_bytes(SubSeq(file, 13, 16))

\* The file ends before the magic, the version, the field count or one of
\* the declared directory entries is complete
Truncated == Len(file) < 16 \/ Len(file) < 16 + 10 * DeclaredCount

RawCode(i) == from_le_bytes(SubSeq(file, 10 * i + 7, 10 * i + 8))

RawOffset(i) == from_le_bytes(SubSeq(file, 10 * i + 9, 10 * i + 16))

HasEntry(code) == \E i \in 1..DeclaredCount : RawCode(i) = code

Opened == pc # "start"

\* s is a prefix of t
IsPrefix(s, t) == Len(s) <= Len(t) /\ s = SubSeq(t, 1, Len(s))

\* char::encode_utf8 for every character of a string
RECURSIVE Utf8Encode(_)
Utf8Encode(s) ==
    IF s = <<>> THEN <<>>
    ELSE LET c == Head(s)
             e == CASE c < 128 -> <<c>>
                    [] c >= 128 /\ c < 2048 ->
                         <<192 + (c \div 64), 128 + (c % 64)>>
                    [] c >= 2048 /\ c < 65536 ->
                         <<224 + (c \div 4096), 128 + ((c \div 64) % 64),
                           128 + (c % 64)>>
                    [] OTHER ->
                         <<240 + (c \div 262144), 128 + ((c \div 4096) % 64),
                           128 + ((c \div 64) % 64), 128 + (c % 64)>>
         IN  e \o Utf8Encode(Tail(s))

\* The numbers written in a dump "[n1, n2, ...]"
RECURSIVE DumpItems(_, _, _)
DumpItems(s, cur, has) ==
    IF s = <<>> THEN IF has THEN <<cur>> ELSE <<>>
    ELSE LET c == Head(s)
         IN  IF c >= 48 /\ c <= 57
             THEN DumpItems(Tail(s), 10 * cur + (c - 48), TRUE)
             ELSE IF c = 44 THEN <<cur>> \o DumpItems(Tail(s), 0, FALSE)
             ELSE DumpItems(Tail(s), cur, has)

IsDumpOf(s, b) ==
    /\ Len(s) >= 2
    /\ s[1] = 91
    /\ s[Len(s)] = 93
    /\ DumpItems(s, 0, FALSE) = b

-----------------------------------------------------------------------------
(* Claims. *)

\* C1: for a well-formed file whose SNPCount value is n, an iterator over an
\* iterable kind of the directory emits a value on exactly the first n calls
\* of next() and nothing on every later call.
C1_EmitsExactlyCount ==
    (/\ pc = "iterating"
     /\ lastOp = "next"
     /\ field_def.byte_offset + 4 * snp_count <= Len(file))
    => /\ (nextResult.tag = "Some") = (calls <= snp_count)
       /\ Len(emitted) = Min(calls, snp_count)

\* C2: a file that starts with "IDAT" and has a complete directory without a
\* SNPCount entry makes open return MissingField as a value; no Reader is
\* returned and the program is not aborted.
C2_MissingSnpCountIsAnError ==
    (/\ Opened
     /\ Len(file) >= 4
     /\ FileMagic = IDAT
     /\ ~Truncated
     /\ ~HasEntry(1000))
    => /\ pc = "failed"
       /\ openResult = ErrMissingField("SNPCount")

\* C3: a file of at least 4 bytes whose first 4 bytes are not "IDAT" makes
\* open fail with InvalidHeader{actual}; actual is those bytes as text when
\* they are valid UTF-8 and a dump of the 4 byte values otherwise.  A file
\* that starts with "IDAT" never gets InvalidHeader.
C3_InvalidHeader ==
    (Opened /\ Len(file) >= 4)
    => IF FileMagic = <<73, 68, 65, 84>>
       THEN openResult.tag # "InvalidHeader"
       ELSE /\ pc = "failed"
            /\ openResult.tag = "InvalidHeader"
            /\ IF from_utf8(FileMagic).ok
               THEN Utf8Encode(openResult.actual) = FileMagic
               ELSE IsDumpOf(openResult.actual, FileMagic)

C3_Witness ==
    /\ pc = "failed"
    /\ openResult.tag = "InvalidHeader"
    /\ ~from_utf8(FileMagic).ok
    /\ Len(openResult.actual) > 4

\* C4: field_iter on a kind other than IlluminaID, SD, Mean and BeadCounts
\* fails with FieldNotIterable, whether or not the directory has an entry of
\* the kind, and creates no iterator.
C4_NotIterable ==
    (/\ lastOp = "field_iter"
     /\ requested \notin {"IlluminaID", "SD", "Mean", "BeadCounts"})
    => /\ iterResult = ErrFieldNotIterable
       /\ pc = "ready"
       /\ field_def = NoDef

C4_Witness ==
    /\ lastOp = "field_iter"
    /\ requested = "Unknown"
    /\ \E i \in 1..Len(fields) : fields[i].field_type = "Unknown"
    /\ iterResult = ErrFieldNotIterable

\* C5: field_iter on an iterable kind that has no entry in the directory
\* fails with MissingField carrying the requested kind, and leaves the source
\* position, the directory and the array length as they were.
C5_MissingField ==
    [][(/\ lastOp' = "field_iter"
        /\ requested' \in {"IlluminaID", "SD", "Mean", "BeadCounts"}
        /\ \A i \in 1..Len(fields) : fields[i].field_type # requested')
       => /\ iterResult'.tag = "MissingField"
          /\ iterResult'.field = requested'
          /\ pc' = "ready"
          /\ pos' = pos
          /\ fields' = fields
          /\ snp_count' = snp_count]_vars

C5_Witness ==
    /\ lastOp = "field_iter"
    /\ requested = "Mean"
    /\ iterResult = ErrMissingField("Mean")
    /\ Len(fields) = 2

\* C6 as claimed: whenever the file ends before the magic, the version, the
\* field count or a declared directory entry is complete, open fails with an
\* Io error.
C6_TruncatedIsIo ==
    (Opened /\ Truncated) => (pc = "failed" /\ openResult = ErrIo)

\* C6 as amended: a file cut short in the magic, the version, the field
\* count or a declared directory entry never yields a Reader; open fails
\* with an Io error unless all 4 magic bytes are present and differ from
\* "IDAT", and then with InvalidHeader.
C6_TruncatedNeverAccepted ==
    (Opened /\ Truncated)
    => /\ pc = "failed"
       /\ IF Len(file) >= 4 /\ FileMagic # <<73, 68, 65, 84>>
          THEN openResult.tag = "InvalidHeader"
          ELSE openResult = ErrIo

C6_Witness ==
    /\ pc = "failed"
    /\ openResult = ErrIo
    /\ Len(file) > 26
    /\ DeclaredCount = 2
    /\ RawCode(1) = 1000

\* C7: the k-th value (from 0) an IlluminaID iterator emits is the signed
\* 32-bit little-endian integer in the file bytes o+4k .. o+4k+3, o being the
\* field's directory offset: ascending, nothing skipped, nothing repeated.
C7_ValuesInFileOrder ==
    (pc = "iterating" /\ field_def.field_type = "IlluminaID")
    => /\ \E i \in 1..DeclaredCount :
              RawCode(i) = 102 /\ RawOffset(i) = field_def.byte_offset
       /\ Len(readAt) = Len(emitted)
       /\ \A k \in 1..Len(emitted) :
              LET at == field_def.byte_offset + 4 * (k - 1)
              IN  /\ readAt[k] = at
                  /\ emitted[k] >= -2147483647 - 1
                  /\ emitted[k] <= 2147483647
                  /\ to_le_bytes(emitted[k], 4) = SubSeq(file, at + 1, at + 4)

C7_Witness ==
    /\ pc = "iterating"
    /\ field_def.field_type = "IlluminaID"
    /\ Len(emitted) >= 2
    /\ emitted[1] = 10
    /\ emitted[2] = -3

\* C8: an iterator over SD, Mean or BeadCounts reads 2 bytes at its cursor on
\* each next() that is not exhausted, emits them as an unsigned 16-bit
\* little-endian value and advances by 2; it never aborts as unsupported.
C8_ShortFieldsIterate ==
    [][(/\ pc = "iterating"
        /\ lastOp' = "next"
        /\ field_def.field_type \in {"SD", "Mean", "BeadCounts"}
        /\ calls = Len(emitted)
        /\ Len(emitted) < snp_count
        /\ offset + 2 <= Len(file))
       => /\ pc' = "iterating"
          /\ nextResult' =
                 NextSome(from_le_bytes(SubSeq(file, offset + 1, offset + 2)))
          /\ offset' = offset + 2]_vars

C10_ShortReadIsNotAnAbort ==
    [][(/\ pc = "iterating"
        /\ lastOp' = "next"
        /\ field_def.field_type = "IlluminaID"
        /\ calls = Len(emitted)
        /\ Len(emitted) < snp_count
        /\ offset + 4 > Len(file))
       => /\ pc' # "panicked"
          /\ nextResult'.tag # "Some"]_vars

\* C11: whenever open returns a Reader, its array length is the unsigned
\* 32-bit little-endian value in the 4 file bytes at a SNPCount entry's
\* offset; when those 4 bytes are not all in the file, open returns no Reader.
C11_ArrayLengthFromFile ==
    (openResult = ResOk)
    => \E i \in 1..DeclaredCount :
           /\ RawCode(i) = 1000
           /\ RawOffset(i) + 4 <= Len(file)
           /\ snp_count =
                  from_le_bytes(SubSeq(file, RawOffset(i) + 1, RawOffset(i) + 4))

\* C12: the counter returned of a live iterator equals the number of values
\* the iterator has emitted so far.
C12_ReturnedCountsEmitted ==
    (pc = "iterating") => (returned = Len(emitted))

\* C13: next() is exhausted as soon as returned >= arrayLength: no element is
\* read at or beyond byteOffset + 4 * arrayLength, and with arrayLength 0 the
\* first next() emits nothing.
C13_CorrectedBound ==
    (pc = "iterating")
    => /\ \A k \in 1..Len(readAt) :
              readAt[k] + 4 <= field_def.byte_offset + 4 * snp_count
       /\ (snp_count = 0) => (emitted = <<>>)

\* C14: when next() reads an element the source is at the iterator's own
\* cursor, the field's byteOffset plus the widths of the elements already
\* emitted, wherever the source was before the call; next() seeks exactly
\* when the source was not at that cursor.
C14_ReadsAtOwnCursor ==
    (pc = "iterating" /\ lastOp = "next" /\ nextResult.tag = "Some")
    => LET cursor == field_def.byte_offset + 4 * (Len(emitted) - 1)
       IN  /\ readAt[Len(readAt)] = cursor
           /\ seeked = (posBefore # cursor)

C14_Witness ==
    /\ pc = "iterating"
    /\ lastOp = "next"
    /\ nextResult.tag = "Some"
    /\ Len(emitted) = 1
    /\ seeked
    /\ posBefore > field_def.byte_offset
    /\ iters = 2

\* C15: once a next() of an iterator has emitted nothing, every later next()
\* of that iterator emits nothing, whether the empty result came from the
\* bound or from a failure to query the source position.
C15_ExhaustedIsTerminal ==
    [][(/\ pc = "iterating"
        /\ nextResult = NextNone
        /\ lastOp' = "next")
       => nextResult'.tag # "Some"]_vars

\* C16: iteration terminates: after at most arrayLength + 1 calls of next()
\* on an iterator, one of the calls has emitted nothing.
C16_TerminatesWithinCountPlusOne ==
    (pc = "iterating" /\ calls >= snp_count + 1) => (Len(emitted) < calls)

\* The kind the registry lists for a code, Unknown for an unlisted code
Registered(code) ==
    IF \E k \in FieldTypes : Discriminant[k] = code
    THEN CHOOSE k \in FieldTypes : Discriminant[k] = code
    ELSE "Unknown"

\* C17: classification never fails: a file with the magic, a complete
\* directory of n entries and a SNPCount entry is opened, and the parsed
\* directory has exactly n definitions in file order, each with the kind the
\* registry lists for its code, Unknown for every unlisted code.
C17_ClassificationIsTotal ==
    (/\ Opened
     /\ Len(file) >= 4
     /\ FileMagic = IDAT
     /\ ~Truncated
     /\ HasEntry(1000))
    => /\ openResult = ResOk
       /\ Len(fields) = DeclaredCount
       /\ \A i \in 1..DeclaredCount :
              fields[i] = FieldDef(Registered(RawCode(i)), RawOffset(i))

C17_Witness ==
    /\ openResult = ResOk
    /\ Len(fields) = 2
    /\ RawCode(1) = 65535
    /\ fields[1].field_type = "Unknown"
    /\ fields[2].field_type = "SNPCount"

\* C18: every parsed definition carries the code read from the file, so the
\* (code, offset) pairs of the directory can be recovered from the parsed
\* directory and entries with different codes have different definitions.
C18_DirectoryRoundTrips ==
    (openResult = ResOk)
    => /\ \A i \in 1..Len(fields) :
              /\ Discriminant[fields[i].field_type] = RawCode(i)
              /\ fields[i].byte_offset = RawOffset(i)
       /\ \A i, j \in 1..Len(fields) :
              (RawCode(i) # RawCode(j))
              => (fields[i].field_type # fields[j].field_type)

\* The offset of the last directory entry of the file with the code
LastOffset(code) ==
    RawOffset(CHOOSE i \in 1..DeclaredCount :
                  /\ RawCode(i) = code
                  /\ \A j \in (i + 1)..DeclaredCount : RawCode(j) # code)

\* C19: when the directory has several entries of a kind and a Reader is
\* returned, the lookups by kind use the last of them: the array length is
\* read at the last SNPCount entry's offset and an iterator starts at the
\* last entry of its kind.
C19_LastDuplicateWins ==
    /\ (pc = "iterating")
       => (field_def.byte_offset
               = LastOffset(Discriminant[field_def.field_type]))
    /\ (openResult = ResOk /\ LastOffset(1000) + 4 <= Len(file))
       => (snp_count = from_le_bytes(SubSeq(file, LastOffset(1000) + 1,
                                            LastOffset(1000) + 4)))

\* C20: open reports the first failure in file order: when the first 4
\* bytes are present and are not "IDAT" it fails with InvalidHeader whatever
\* follows, and an Io error for a file of at least 4 bytes means the magic
\* was "IDAT".
C20_FirstFailureInFileOrder ==
    (Opened /\ Len(file) >= 4)
    => /\ (FileMagic # <<73, 68, 65, 84>>)
          => (pc = "failed" /\ openResult.tag = "InvalidHeader")
       /\ (openResult.tag = "Io") => (FileMagic = <<73, 68, 65, 84>>)

C20_Witness ==
    /\ pc = "failed"
    /\ openResult.tag = "InvalidHeader"
    /\ Len(file) >= 4
    /\ Len(file) < 12

====
